---- MODULE Spec2Model ----
(***************************************************************************)
(* A model of the two MDLH scripts of lakehouse-solutions:                 *)
(*   - databricks/mdlh-setup/databricks_create_mdlh_setup.py: the sync of  *)
(*     a Polaris catalog into a Unity Catalog (SpecSync, SpecResync);      *)
(*   - snowflake/mdlh-table-maintenance/MDLH_table_refresh_repair.py: the  *)
(*     stale-table repair app (SpecApp).                                   *)
(* The catalog client, the Spark session and the Snowflake session are     *)
(* external: each call of theirs either raises or returns, chosen          *)
(* nondeterministically at the call.                                       *)
(***************************************************************************)
EXTENDS Integers, Sequences, FiniteSets, TLC

\* ------------------------------------------------------------------ bounds
\* Longest table list of a namespace.
MaxTables == 1
\* Longest namespace list of the fallback catalog.
MaxFallbackNs == 1
\* Number of times the sync script is run against the same target.
MaxRuns == 2

\* Timestamps are whole days 0..MaxDay; the app runs on day MaxDay.
MaxDay == 2
\* Largest value entered in the "Days Threshold" input.
MaxThreshold == 2

\* Most catalog calls logged of one PolarisSQLReader whose caller goes on
\* calling it.
MaxReaderEvents == 6

\* Longest identifier the quoting rule is applied to, in characters.
MaxIdentLen == 3

\* ------------------------------------------------------- sync: the inputs
\* The candidates detect_catalog tries, in order.
Candidates == <<"atlan-wh", "context_store">>

\* The reserved history namespace.
HistoryNamespace == "atlan-history"

\* The string an unset metadata_location is modelled by (falsy in Python).
NoLocation == ""

\* reader.catalog before connect_to_catalog succeeded (None).
NoCatalog == "None"

\* Namespace identifiers as pyiceberg lists them: tuples of strings. Two of
\* them share their first element.
NamespaceRefs == {<<"atlan-history">>, <<"ns1">>, <<"ns1", "a">>}

\* Table identifiers (tuples whose last element is the table name) with the
\* metadata_location load_table finds for them.
TableRefs ==
  { [identifier |-> <<"ns", "t1">>, metadata_location |-> "s3://m/t1"],
    [identifier |-> <<"ns", "t2">>, metadata_location |-> NoLocation],
    [identifier |-> <<>>,           metadata_location |-> "s3://m/t0"] }

\* All sequences over S of length at most n.
SeqsUpTo(S, n) == UNION { [1..k -> S] : k \in 0..n }

\* A catalog lists each namespace identifier once.
DistinctSeqsUpTo(S, n) ==
  { s \in SeqsUpTo(S, n) : \A i, j \in 1..Len(s) : i # j => s[i] # s[j] }

\* The namespace lists of the preferred catalog: any of the identifiers, in
\* any order.
NsLists == DistinctSeqsUpTo(NamespaceRefs, Cardinality(NamespaceRefs))

\* The namespace lists of the fallback catalog.
FallbackNsLists == DistinctSeqsUpTo(NamespaceRefs, MaxFallbackNs)

TableLists == SeqsUpTo(TableRefs, MaxTables)

VARIABLES
  \* configuration and the source catalogs (never changed by the script)
  historySync,     \* HISTORY_NAMESPACE_SYNC
  srcNamespaces,   \* candidate -> the namespace identifiers it holds
  srcTables,       \* the table list the source holds for a namespace
  \* PolarisSQLReader
  catalog, catalog_name, warehouse_name,
  \* main's locals
  namespaces, pos, tables, tpos,
  \* control
  pc, ret, cand, run,
  \* the calls issued in this run, in order
  log,
  \* the target Unity Catalog
  targetSchemas, targetTables

VARIABLES
  \* the warehouse (never changed by the model)
  whSchemas,       \* the SCHEMA_NAME rows of INFORMATION_SCHEMA.SCHEMATA
  whTables,        \* the rows of INFORMATION_SCHEMA.TABLES of the schema
  \* the widgets
  database_name, selected_schema, days_threshold, tables_to_repair,
  \* st.session_state
  stale_tables, repair_results,
  \* one script run: its position, the button that triggered it, locals
  apc, clicked, conn, schemas, idx, results,
  \* what the last completed run rendered
  shown,
  \* the statements sent to the warehouse in this script run, in order
  queries,
  \* the last call of list_schemas / find_stale_tables and its outcome
  lastCall

appVars == <<whSchemas, whTables, database_name, selected_schema, days_threshold,
             tables_to_repair, stale_tables, repair_results, apc, clicked, conn,
             schemas, idx, results, shown, queries, lastCall>>

syncVars == <<historySync, srcNamespaces, srcTables, catalog, catalog_name,
              warehouse_name, namespaces, pos, tables, tpos, pc, ret, cand,
              run, log, targetSchemas, targetTables>>

\* The quoting of one identifier, on its own.
VARIABLES
  \* the identifier as given, a sequence of characters
  ident,
  \* the identifier after the quoting rule was applied `applied` times
  quoted, applied

quoteVars == <<ident, quoted, applied>>

vars == <<syncVars, appVars, quoteVars>>

\* ------------------------------------------------------ sync: the helpers
Last(s) == s[Len(s)]

\* list_namespaces' normalisation: ns[0] of a tuple.
NormaliseNamespace(ns) == Head(ns)

NormaliseAll(nss) == [i \in 1..Len(nss) |-> NormaliseNamespace(nss[i])]

\* One entry of the log: a call issued on the catalog or on Spark (or the
\* skip of a namespace), the namespace position and table position it is
\* for, and whether it returned (ok) or raised.
Event(op, ns, p, t, ok, result) ==
  [op |-> op, ns |-> ns, pos |-> p, tpos |-> t, ok |-> ok, result |-> result]

\* A detect_catalog that takes any accessible candidate, empty or not.
CandidateAccessible(ok, nss) == ok

\* detect_catalog's test of a candidate: load_catalog and list_namespaces
\* returned (ok) and `if namespaces:` holds.
CandidateQualifies(ok, nss) == ok /\ nss # <<>>

\* A namespace loop without the history test.
SkipNothing(namespace) == FALSE

\* The `if namespace == "atlan-history" and not HISTORY_NAMESPACE_SYNC` test.
SkipNamespace(namespace) ==
  namespace = HistoryNamespace /\ ~historySync

\* get_metadata_path: raises ValueError when the location is falsy.
get_metadata_path(table) ==
  IF table.metadata_location = NoLocation
    THEN [raised |-> TRUE, value |-> NoLocation]
    ELSE [raised |-> FALSE, value |-> table.metadata_location]

\* table_identifier[0] in the place of table_identifier[-1].
FirstComponent(identifier) ==
  IF Len(identifier) = 0
    THEN [raised |-> TRUE, value |-> ""]
    ELSE [raised |-> FALSE, value |-> Head(identifier)]

\* table_identifier[-1]: IndexError on an identifier with no components.
LastComponent(identifier) ==
  IF Len(identifier) = 0
    THEN [raised |-> TRUE, value |-> ""]
    ELSE [raised |-> FALSE, value |-> Last(identifier)]

\* The per-table except clause: it formats table_identifier[-1] into the
\* error message, so it raises itself when the identifier is empty.
TableErrorHandler(identifier) ==
  IF LastComponent(identifier).raised THEN "raise" ELSE "continue"

\* The except clause around CREATE SCHEMA.
SchemaErrorHandler == "continue"

\* The except clause around reader.list_tables.
ListErrorHandler == "continue"

\* CREATE SCHEMA IF NOT EXISTS <target>.`<namespace>`
CreateSchemaIfNotExists(existing, namespace) == existing \cup {namespace}

\* CREATE TABLE IF NOT EXISTS <target>.`<namespace>`.`<table>` ... METADATA_PATH
CreateTableIfNotExists(tbls, namespace, table_name, metadata_path) ==
  IF <<namespace, table_name>> \in DOMAIN tbls
    THEN tbls
    ELSE tbls @@ (<<namespace, table_name>> :> metadata_path)

\* ------------------------------------------------------ sync: the actions
srcUnchanged == UNCHANGED <<historySync, srcNamespaces, srcTables>>

targetUnchanged == UNCHANGED <<targetSchemas, targetTables>>

readerUnchanged == UNCHANGED <<catalog, catalog_name, warehouse_name>>

\* A list_namespaces whose connect_to_catalog lacks `if not self.catalog`.
StartListNamespacesReconnecting ==
  /\ pc = "start"
  /\ ret' = "list_namespaces"
  /\ pc' = "detect"
  /\ cand' = 1
  /\ UNCHANGED <<namespaces, pos, tables, tpos, run, log>>
  /\ srcUnchanged /\ targetUnchanged /\ readerUnchanged
  /\ UNCHANGED <<appVars, quoteVars>>

\* main up to reader.list_namespaces(), and list_namespaces' first line.
StartListNamespaces ==
  /\ pc = "start"
  /\ ret' = "list_namespaces"
  /\ pc' = IF catalog = NoCatalog THEN "detect" ELSE "list_namespaces"
  /\ cand' = 1
  /\ UNCHANGED <<namespaces, pos, tables, tpos, run, log>>
  /\ srcUnchanged /\ targetUnchanged /\ readerUnchanged
  /\ UNCHANGED <<appVars, quoteVars>>

\* One iteration of detect_catalog's loop: load_catalog and list_namespaces
\* on the candidate, either of which may raise.
DetectProbe ==
  /\ pc = "detect"
  /\ \E ok \in BOOLEAN :
       LET c == Candidates[cand]
           found == CandidateQualifies(ok, srcNamespaces[c])
           result == IF ~ok THEN "error" ELSE IF found THEN "nonempty" ELSE "empty"
       IN /\ log' = Append(log, Event("probe", c, 0, 0, ok, result))
          /\ IF found
               THEN /\ catalog_name' = c
                    /\ warehouse_name' = c
                    /\ pc' = "load_catalog"
                    /\ cand' = cand
               ELSE /\ UNCHANGED <<catalog_name, warehouse_name>>
                    /\ IF cand < Len(Candidates)
                         THEN cand' = cand + 1 /\ pc' = "detect"
                         ELSE cand' = cand /\ pc' = "raised"
  /\ UNCHANGED <<catalog, namespaces, pos, tables, tpos, ret, run>>
  /\ srcUnchanged /\ targetUnchanged
  /\ UNCHANGED <<appVars, quoteVars>>

\* connect_to_catalog's load_catalog of the detected catalog.
LoadCatalog ==
  /\ pc = "load_catalog"
  /\ \E ok \in BOOLEAN :
       /\ log' = Append(log, Event("load_catalog", catalog_name, 0, 0, ok, "-"))
       /\ IF ok
            THEN catalog' = catalog_name /\ pc' = ret
            ELSE catalog' = catalog /\ pc' = "raised"
  /\ UNCHANGED <<catalog_name, warehouse_name, namespaces, pos, tables, tpos,
                 ret, cand, run>>
  /\ srcUnchanged /\ targetUnchanged
  /\ UNCHANGED <<appVars, quoteVars>>

\* self.catalog.list_namespaces() and the normalisation of its result.
ListNamespaces ==
  /\ pc = "list_namespaces"
  /\ \E ok \in BOOLEAN :
       /\ log' = Append(log, Event("list_namespaces", catalog, 0, 0, ok, "-"))
       /\ IF ok
            THEN /\ namespaces' = NormaliseAll(srcNamespaces[catalog])
                 /\ pos' = 1
                 /\ pc' = "namespace"
            ELSE /\ UNCHANGED <<namespaces, pos>>
                 /\ pc' = "raised"
  /\ UNCHANGED <<tables, tpos, ret, cand, run>>
  /\ srcUnchanged /\ targetUnchanged /\ readerUnchanged
  /\ UNCHANGED <<appVars, quoteVars>>

\* The head of the namespace loop: the history skip, or CREATE SCHEMA.
\* A failed CREATE SCHEMA is logged and the loop continues.
SkipHistory ==
  /\ pc = "namespace"
  /\ pos <= Len(namespaces)
  /\ SkipNamespace(namespaces[pos])
  /\ log' = Append(log, Event("skip", namespaces[pos], pos, 0, TRUE, "-"))
  /\ pos' = pos + 1
  /\ UNCHANGED <<namespaces, tables, tpos, pc, ret, cand, run>>
  /\ srcUnchanged /\ targetUnchanged /\ readerUnchanged
  /\ UNCHANGED <<appVars, quoteVars>>

\* A CREATE SCHEMA whose except clause logs and falls through to the table
\* listing instead of continuing with the next namespace.
CreateSchemaFallingThrough ==
  /\ pc = "namespace"
  /\ pos <= Len(namespaces)
  /\ ~SkipNamespace(namespaces[pos])
  /\ \E ok \in BOOLEAN :
       /\ log' = Append(log, Event("CREATE SCHEMA", namespaces[pos], pos, 0, ok, "-"))
       /\ targetSchemas' = IF ok THEN CreateSchemaIfNotExists(targetSchemas, namespaces[pos])
                                 ELSE targetSchemas
       /\ pc' = "list_tables"
       /\ pos' = pos
  /\ UNCHANGED <<namespaces, tables, tpos, ret, cand, run, targetTables>>
  /\ srcUnchanged /\ readerUnchanged
  /\ UNCHANGED <<appVars, quoteVars>>

CreateSchema ==
  /\ pc = "namespace"
  /\ pos <= Len(namespaces)
  /\ ~SkipNamespace(namespaces[pos])
  /\ \E ok \in BOOLEAN :
       /\ log' = Append(log, Event("CREATE SCHEMA", namespaces[pos], pos, 0, ok, "-"))
       /\ IF ok
            THEN /\ targetSchemas' = CreateSchemaIfNotExists(targetSchemas, namespaces[pos])
                 /\ pc' = "list_tables"
                 /\ pos' = pos
            ELSE /\ targetSchemas' = targetSchemas
                 /\ IF SchemaErrorHandler = "continue"
                      THEN pc' = "namespace" /\ pos' = pos + 1
                      ELSE pc' = "raised" /\ pos' = pos
  /\ UNCHANGED <<namespaces, tables, tpos, ret, cand, run, targetTables>>
  /\ srcUnchanged /\ readerUnchanged
  /\ UNCHANGED <<appVars, quoteVars>>

\* reader.list_tables(namespace): connect_to_catalog finds the catalog set
\* and catalog.list_tables is called. A failure skips the namespace.
ListTables ==
  /\ pc = "list_tables"
  /\ IF catalog = NoCatalog
       THEN /\ pc' = "detect" /\ cand' = 1 /\ ret' = "list_tables"
            /\ UNCHANGED <<log, tables, tpos, pos>>
       ELSE /\ UNCHANGED <<cand, ret>>
            /\ \E ok \in BOOLEAN :
                 /\ log' = Append(log, Event("list_tables", namespaces[pos], pos, 0, ok, "-"))
                 /\ IF ok
                      THEN /\ tables' = srcTables
                           /\ tpos' = 1
                           /\ pc' = "table"
                           /\ pos' = pos
                      ELSE /\ UNCHANGED <<tables, tpos>>
                           /\ IF ListErrorHandler = "continue"
                                THEN pc' = "namespace" /\ pos' = pos + 1
                                ELSE pc' = "raised" /\ pos' = pos
  /\ UNCHANGED <<namespaces, run>>
  /\ srcUnchanged /\ targetUnchanged /\ readerUnchanged
  /\ UNCHANGED <<appVars, quoteVars>>

\* One iteration of the table loop: the try block (load_table,
\* get_metadata_path, table_identifier[-1], CREATE TABLE) and its except
\* clause, which logs and continues unless it raises itself.
ProcessTable ==
  /\ pc = "table"
  /\ tpos <= Len(tables)
  /\ \E loadOk, createOk \in BOOLEAN :
       LET t == tables[tpos]
           ns == namespaces[pos]
           meta == get_metadata_path(t)
           name == LastComponent(t.identifier)
           loadEv == Event("load_table", ns, pos, tpos, loadOk, "-")
           metaEv == Event("get_metadata_path", ns, pos, tpos, ~meta.raised, "-")
           createEv == Event("CREATE TABLE", ns, pos, tpos, createOk, name.value)
           reachedCreate == loadOk /\ ~meta.raised /\ ~name.raised
           failed == ~reachedCreate \/ ~createOk
       IN /\ log' = IF ~loadOk THEN Append(log, loadEv)
                    ELSE IF ~reachedCreate THEN log \o <<loadEv, metaEv>>
                    ELSE log \o <<loadEv, metaEv, createEv>>
          /\ targetTables' =
               IF reachedCreate /\ createOk
                 THEN CreateTableIfNotExists(targetTables, ns, name.value, meta.value)
                 ELSE targetTables
          /\ IF failed /\ TableErrorHandler(t.identifier) = "raise"
               THEN pc' = "raised" /\ tpos' = tpos
               ELSE pc' = "table" /\ tpos' = tpos + 1
  /\ UNCHANGED <<namespaces, pos, tables, ret, cand, run, targetSchemas>>
  /\ srcUnchanged /\ readerUnchanged
  /\ UNCHANGED <<appVars, quoteVars>>

\* The table loop is exhausted: on to the next namespace.
EndTables ==
  /\ pc = "table"
  /\ tpos > Len(tables)
  /\ pc' = "namespace"
  /\ pos' = pos + 1
  /\ UNCHANGED <<namespaces, tables, tpos, ret, cand, run, log>>
  /\ srcUnchanged /\ targetUnchanged /\ readerUnchanged
  /\ UNCHANGED <<appVars, quoteVars>>

\* The namespace loop is exhausted: "Sync completed", main returns.
Finish ==
  /\ pc = "namespace"
  /\ pos > Len(namespaces)
  /\ pc' = "done"
  /\ UNCHANGED <<namespaces, pos, tables, tpos, ret, cand, run, log>>
  /\ srcUnchanged /\ targetUnchanged /\ readerUnchanged
  /\ UNCHANGED <<appVars, quoteVars>>

\* The script is run again (a new process: nothing in memory survives)
\* against the same source and the same target.
Restart ==
  /\ pc \in {"done", "raised"}
  /\ run < MaxRuns
  /\ run' = run + 1
  /\ pc' = "start"
  /\ catalog' = NoCatalog /\ catalog_name' = NoCatalog /\ warehouse_name' = NoCatalog
  /\ namespaces' = <<>> /\ pos' = 0 /\ tables' = <<>> /\ tpos' = 0
  /\ ret' = "-" /\ cand' = 1 /\ log' = <<>>
  /\ srcUnchanged /\ targetUnchanged
  /\ UNCHANGED <<appVars, quoteVars>>

\* ------------------------------------------------------- app: the inputs
\* The app runs on day MaxDay: CURRENT_TIMESTAMP().
Now == MaxDay

\* number_input's min_value and value.
MinThreshold == 1

DefaultThreshold == 1

\* text_input's default value.
DefaultDatabase == "ATLAN_CONTEXT_STORE"

\* What the operator may type as the database name.
DatabaseNames == {DefaultDatabase, ""}

\* selected_schema when no schema can be selected (None).
NoSchema == "None"

SchemaLists == {<<>>, <<"S1", "S2">>}

\* The names a table of the schema may have.
TableNames == {"T1", "T2"}

\* The ROW_COUNT values a table may have.
RowCounts == {0, 10}

\* The attributes INFORMATION_SCHEMA.TABLES holds of a table.
TableAttrs == [last_altered : 0..MaxDay, row_count : RowCounts]

\* The schema's tables: a function from the names present to their attributes.
Warehouses == UNION { [names -> TableAttrs] : names \in SUBSET TableNames }

Range(s) == { s[i] : i \in 1..Len(s) }

\* The sequences that list each element of the set S once.
Orderings(S) == { s \in [1..Cardinality(S) -> S] : Range(s) = S }

\* The selections a multiselect over the options can hold, in click order.
Selections(options) == UNION { Orderings(S) : S \in SUBSET Range(options) }

\* ------------------------------------------------------ app: the helpers
\* An execute_query that reports the error and returns instead of raising.
execute_query_swallowing(ok, rows) ==
  [raised |-> FALSE, rows |-> IF ok THEN rows ELSE <<>>, errors |-> IF ok THEN 0 ELSE 1]

\* execute_query: the rows, or st.error and the exception raised again.
execute_query(ok, rows) ==
  IF ok
    THEN [raised |-> FALSE, rows |-> rows, errors |-> 0]
    ELSE [raised |-> TRUE, rows |-> <<>>, errors |-> 1]

\* The rows of SELECT DISTINCT SCHEMA_NAME ... ORDER BY SCHEMA_NAME, each cut
\* to its first `width` columns.
SchemaRows(width) ==
  [i \in 1..Len(whSchemas) |-> SubSeq(<<whSchemas[i]>>, 1, width)]

\* list_schemas: str(row[0]) of every row; any exception is reported with
\* st.error and [] returned.
list_schemas(res) ==
  IF res.raised \/ \E i \in 1..Len(res.rows) : Len(res.rows[i]) < 1
    THEN [raised |-> FALSE, value |-> <<>>, errors |-> res.errors + 1]
    ELSE [raised |-> FALSE, value |-> [i \in 1..Len(res.rows) |-> res.rows[i][1]],
          errors |-> res.errors]

\* The WHERE clause of find_stale_tables' query:
\* ROW_COUNT > 0 AND LAST_ALTERED < DATEADD(day, -days_threshold, CURRENT_TIMESTAMP()).
StaleWhere(attrs, threshold) ==
  attrs.row_count > 0 /\ attrs.last_altered < Now - threshold

\* The results the warehouse may give for the query: the matching tables,
\* ORDER BY LAST_ALTERED DESC (ties in any order), each row
\* (TABLE_NAME, LAST_ALTERED, ROW_COUNT) cut to its first `width` columns.
StaleRows(threshold, width) ==
  LET match == { n \in DOMAIN whTables : StaleWhere(whTables[n], threshold) }
      sorted == { s \in Orderings(match) :
                    \A i, j \in 1..Len(s) :
                      i < j => whTables[s[i]].last_altered >= whTables[s[j]].last_altered }
  IN { [i \in 1..Len(s) |->
          SubSeq(<<s[i], whTables[s[i]].last_altered, whTables[s[i]].row_count>>, 1, width)]
       : s \in sorted }

\* The dict find_stale_tables builds of a row; row[1] raises IndexError on a
\* row of one column, row[2] is replaced by 0 on a row of two.
StaleRecord(row, database, schema) ==
  [table_name |-> row[1],
   last_altered |-> row[2],
   row_count |-> IF Len(row) > 2 THEN row[3] ELSE 0,
   database |-> database,
   schema |-> schema]

\* A find_stale_tables whose except clause raises the exception again.
find_stale_tables_reraising(res, database, schema) ==
  IF res.raised \/ \E i \in 1..Len(res.rows) : Len(res.rows[i]) < 2
    THEN [raised |-> TRUE, value |-> <<>>, errors |-> res.errors + 1]
    ELSE [raised |-> FALSE,
          value |-> [i \in 1..Len(res.rows) |-> StaleRecord(res.rows[i], database, schema)],
          errors |-> res.errors]

\* find_stale_tables: one dict per row; any exception is reported with
\* st.error and [] returned.
find_stale_tables(res, database, schema) ==
  IF res.raised \/ \E i \in 1..Len(res.rows) : Len(res.rows[i]) < 2
    THEN [raised |-> FALSE, value |-> <<>>, errors |-> res.errors + 1]
    ELSE [raised |-> FALSE,
          value |-> [i \in 1..Len(res.rows) |-> StaleRecord(res.rows[i], database, schema)],
          errors |-> res.errors]

\* A statement sent to the warehouse and whether it executed.
Statement(kind, database, schema, table, ok) ==
  [kind |-> kind, database |-> database, schema |-> schema, table |-> table, ok |-> ok]

NoTable == "-"

\* str(e) of the exception a statement raised.
ErrorText(kind) == <<"error", kind>>

\* A repair_table without its try: the first exception leaves the call.
repair_table_uncaught(database, schema, table_name, refreshOk, autoOk) ==
  LET s1 == Statement("REFRESH", database, schema, table_name, refreshOk)
      s2 == Statement("SET AUTO_REFRESH", database, schema, table_name, autoOk)
  IN IF ~refreshOk
       THEN [raised |-> TRUE, sent |-> <<s1>>, success |-> FALSE,
             message |-> ErrorText("REFRESH")]
       ELSE IF ~autoOk
         THEN [raised |-> TRUE, sent |-> <<s1, s2>>, success |-> FALSE,
               message |-> ErrorText("SET AUTO_REFRESH")]
         ELSE [raised |-> FALSE, sent |-> <<s1, s2>>, success |-> TRUE,
               message |-> <<"Success">>]

\* repair_table: REFRESH, then SET AUTO_REFRESH = TRUE, inside one try; the
\* first exception ends the call with (False, str(e)).
repair_table(database, schema, table_name, refreshOk, autoOk) ==
  LET r1 == execute_query(refreshOk, <<>>)
      r2 == execute_query(autoOk, <<>>)
      s1 == Statement("REFRESH", database, schema, table_name, refreshOk)
      s2 == Statement("SET AUTO_REFRESH", database, schema, table_name, autoOk)
  IN IF r1.raised
       THEN [raised |-> FALSE, sent |-> <<s1>>, success |-> FALSE,
             message |-> ErrorText("REFRESH")]
       ELSE IF r2.raised
         THEN [raised |-> FALSE, sent |-> <<s1, s2>>, success |-> FALSE,
               message |-> ErrorText("SET AUTO_REFRESH")]
         ELSE [raised |-> FALSE, sent |-> <<s1, s2>>, success |-> TRUE,
               message |-> <<"Success">>]

\* Options taken from every table of the schema when any is stale.
every_table_name(stale) ==
  IF stale = <<>> THEN <<>>
  ELSE CHOOSE s \in Orderings(DOMAIN whTables) : TRUE

\* df_stale['table_name'].tolist()
all_table_names(stale) == [i \in 1..Len(stale) |-> stale[i].table_name]

\* df_results['success'].sum() and len(df_results) - success_count
success_count(res) == Cardinality({ i \in 1..Len(res) : res[i].success })

failure_count(res) == Len(res) - success_count(res)

NoCall == [fn |-> "-", queryRaised |-> FALSE, raised |-> FALSE, value |-> <<>>, errors |-> 0]

Call(fn, res, out) ==
  [fn |-> fn, queryRaised |-> res.raised, raised |-> out.raised, value |-> out.value,
   errors |-> out.errors]

\* ------------------------------------------------------ app: the actions
whUnchanged == UNCHANGED <<whSchemas, whTables>>

widgetsUnchanged ==
  UNCHANGED <<database_name, selected_schema, days_threshold, tables_to_repair>>

sessionUnchanged == UNCHANGED <<stale_tables, repair_results>>

\* A widget event starts a script run from the top of main.
StartRun(button) ==
  /\ apc' = "connect"
  /\ clicked' = button
  /\ UNCHANGED <<conn, schemas, idx, results, shown, queries, lastCall>>
  /\ whUnchanged /\ sessionUnchanged
  /\ UNCHANGED <<syncVars, quoteVars>>

UserSetDatabase ==
  /\ apc = "idle"
  /\ \E d \in DatabaseNames \ {database_name} : database_name' = d
  /\ UNCHANGED <<selected_schema, days_threshold, tables_to_repair>>
  /\ StartRun("none")

UserSelectSchema ==
  /\ apc = "idle"
  /\ "schema" \in shown
  /\ \E s \in Range(schemas) \ {selected_schema} : selected_schema' = s
  /\ UNCHANGED <<database_name, days_threshold, tables_to_repair>>
  /\ StartRun("none")

UserSetThreshold ==
  /\ apc = "idle"
  /\ "find" \in shown
  /\ \E n \in (MinThreshold..MaxThreshold) \ {days_threshold} : days_threshold' = n
  /\ UNCHANGED <<database_name, selected_schema, tables_to_repair>>
  /\ StartRun("none")

UserSelectTables ==
  /\ apc = "idle"
  /\ "select" \in shown
  /\ \E sel \in Selections(all_table_names(stale_tables)) \ {tables_to_repair} :
       tables_to_repair' = sel
  /\ UNCHANGED <<database_name, selected_schema, days_threshold>>
  /\ StartRun("none")

UserClickFind ==
  /\ apc = "idle"
  /\ "find" \in shown
  /\ widgetsUnchanged
  /\ StartRun("find")

UserClickRepair ==
  /\ apc = "idle"
  /\ "repair" \in shown
  /\ widgetsUnchanged
  /\ StartRun("repair")

\* main returns.
EndRun == apc' = "returned" /\ UNCHANGED <<clicked, conn>>

\* A main without its `if conn is None: return`.
AppConnectUnchecked ==
  /\ apc = "connect"
  /\ \E ok \in BOOLEAN :
       apc' = "schemas" /\ conn' = ok /\ shown' = shown /\ clicked' = clicked
  /\ UNCHANGED <<schemas, idx, results, queries, lastCall>>
  /\ whUnchanged /\ widgetsUnchanged /\ sessionUnchanged
  /\ UNCHANGED <<syncVars, quoteVars>>

\* get_snowflake_connection; main returns when it gives None.
AppConnect ==
  /\ apc = "connect"
  /\ \E ok \in BOOLEAN :
       IF ok
         THEN apc' = "schemas" /\ conn' = TRUE /\ shown' = shown /\ clicked' = clicked
         ELSE EndRun /\ shown' = {}
  /\ UNCHANGED <<schemas, idx, results, queries, lastCall>>
  /\ whUnchanged /\ widgetsUnchanged /\ sessionUnchanged
  /\ UNCHANGED <<syncVars, quoteVars>>

\* The schema column: list_schemas when a database name is given (main
\* catches what it raises and selects no schema), and the selectbox over its
\* result.
AppSchemas ==
  /\ apc = "schemas"
  /\ IF database_name = ""
       THEN /\ schemas' = <<>>
            /\ selected_schema' = NoSchema
            /\ UNCHANGED <<queries, lastCall>>
       ELSE \E ok \in BOOLEAN, width \in 0..1 :
              LET res == execute_query(ok, SchemaRows(width))
                  out == list_schemas(res)
              IN /\ schemas' = out.value
                 /\ selected_schema' =
                      IF out.raised \/ out.value = <<>> THEN NoSchema
                      ELSE IF selected_schema \in Range(out.value) THEN selected_schema
                      ELSE out.value[1]
                 /\ queries' = Append(queries,
                      Statement("SCHEMATA", database_name, NoSchema, NoTable, ok))
                 /\ lastCall' = Call("list_schemas", res, out)
  /\ IF selected_schema' = NoSchema
       THEN EndRun /\ shown' = {}
       ELSE /\ apc' = IF clicked = "find" THEN "find" ELSE "display"
            /\ UNCHANGED <<shown, clicked, conn>>
  /\ UNCHANGED <<database_name, days_threshold, tables_to_repair, idx, results>>
  /\ whUnchanged /\ sessionUnchanged
  /\ UNCHANGED <<syncVars, quoteVars>>

\* The "Find Stale Tables" button was clicked: find_stale_tables, and its
\* result stored in the session state. Nothing in main catches an exception
\* of find_stale_tables: it would end the script run.
AppFind ==
  /\ apc = "find"
  /\ \E ok \in BOOLEAN, width \in 1..3 :
       \E rows \in StaleRows(days_threshold, width) :
         LET res == execute_query(ok, rows)
             out == find_stale_tables(res, database_name, selected_schema)
         IN /\ queries' = Append(queries,
                 Statement("TABLES", database_name, selected_schema, NoTable, ok))
            /\ lastCall' = Call("find_stale_tables", res, out)
            /\ IF out.raised
                 THEN EndRun /\ stale_tables' = stale_tables
                 ELSE /\ stale_tables' = out.value
                      /\ apc' = "display"
                      /\ UNCHANGED <<clicked, conn>>
  /\ UNCHANGED <<repair_results, schemas, idx, results, shown>>
  /\ whUnchanged /\ widgetsUnchanged
  /\ UNCHANGED <<syncVars, quoteVars>>

\* The rest of the run: the stale tables and the multiselect over their
\* names when the session holds any, the repair button when tables are
\* selected, and the start of the batch when that button was clicked.
AppDisplay ==
  /\ apc = "display"
  /\ LET options == all_table_names(stale_tables)
         selected_tables ==
           IF stale_tables = <<>> THEN <<>>
           ELSE IF "select" \in shown /\ Range(tables_to_repair) \subseteq Range(options)
             THEN tables_to_repair
             ELSE options
     IN /\ tables_to_repair' = selected_tables
        /\ shown' = {"schema", "find"}
                      \cup (IF stale_tables # <<>> THEN {"select"} ELSE {})
                      \cup (IF selected_tables # <<>> THEN {"repair"} ELSE {})
        /\ IF clicked = "repair" /\ selected_tables # <<>>
             THEN /\ apc' = "repair" /\ idx' = 1 /\ results' = <<>>
                  /\ UNCHANGED <<clicked, conn>>
             ELSE EndRun /\ UNCHANGED <<idx, results>>
  /\ UNCHANGED <<database_name, selected_schema, days_threshold, schemas, queries,
                 lastCall>>
  /\ whUnchanged /\ sessionUnchanged
  /\ UNCHANGED <<syncVars, quoteVars>>

\* One iteration of the batch loop: repair_table on the next selected table
\* and its outcome appended. Nothing in main catches an exception of
\* repair_table: it would end the script run.
AppRepairStep ==
  /\ apc = "repair"
  /\ idx <= Len(tables_to_repair)
  /\ \E refreshOk, autoOk \in BOOLEAN :
       LET table_name == tables_to_repair[idx]
           r == repair_table(database_name, selected_schema, table_name, refreshOk, autoOk)
       IN /\ queries' = queries \o r.sent
          /\ IF r.raised
               THEN EndRun /\ UNCHANGED <<idx, results>>
               ELSE /\ results' = Append(results, [table_name |-> table_name,
                                                   success |-> r.success,
                                                   message |-> r.message])
                    /\ idx' = idx + 1
                    /\ UNCHANGED <<apc, clicked, conn>>
  /\ UNCHANGED <<schemas, shown, lastCall>>
  /\ whUnchanged /\ widgetsUnchanged /\ sessionUnchanged
  /\ UNCHANGED <<syncVars, quoteVars>>

\* After the loop: the outcomes are stored in the session state and shown.
AppRepairEnd ==
  /\ apc = "repair"
  /\ idx > Len(tables_to_repair)
  /\ repair_results' = results
  /\ EndRun
  /\ UNCHANGED <<stale_tables, schemas, idx, results, shown, queries, lastCall>>
  /\ whUnchanged /\ widgetsUnchanged
  /\ UNCHANGED <<syncVars, quoteVars>>

\* The script run is over: its locals are gone, no button is pressed any
\* more, and the app waits for the next widget event.
AppReturn ==
  /\ apc = "returned"
  /\ apc' = "idle"
  /\ clicked' = "none"
  /\ conn' = FALSE
  /\ queries' = <<>>
  /\ lastCall' = NoCall
  /\ idx' = 0 /\ results' = <<>>
  /\ UNCHANGED <<schemas, shown>>
  /\ whUnchanged /\ widgetsUnchanged /\ sessionUnchanged
  /\ UNCHANGED <<syncVars, quoteVars>>

\* The app is not running (in the specifications of the sync script).
AppOff ==
  /\ whSchemas = <<>> /\ whTables = <<>>
  /\ database_name = DefaultDatabase /\ selected_schema = NoSchema
  /\ days_threshold = DefaultThreshold /\ tables_to_repair = <<>>
  /\ stale_tables = <<>> /\ repair_results = <<>>
  /\ apc = "off" /\ clicked = "none" /\ conn = FALSE /\ schemas = <<>>
  /\ idx = 0 /\ results = <<>> /\ shown = {} /\ queries = <<>> /\ lastCall = NoCall

\* The sync script is not running (in the specification of the app).
SyncOff ==
  /\ historySync = FALSE
  /\ srcNamespaces = ("atlan-wh" :> <<>>) @@ ("context_store" :> <<>>)
  /\ srcTables = <<>>
  /\ catalog = NoCatalog /\ catalog_name = NoCatalog /\ warehouse_name = NoCatalog
  /\ namespaces = <<>> /\ pos = 0 /\ tables = <<>> /\ tpos = 0
  /\ pc = "off" /\ ret = "-" /\ cand = 1 /\ run = 1 /\ log = <<>>
  /\ targetSchemas = {} /\ targetTables = <<>>

\* ------------------------------------------------- app: identifier quoting
\* The double quote, and the characters of an identifier.
DQ == "\""

Chars == {DQ, "A", "."}

\* The identifier strings: every sequence of at most MaxIdentLen characters.
Identifiers == SeqsUpTo(Chars, MaxIdentLen)

\* x.startswith('"')
StartsWithQuote(x) == Len(x) > 0 /\ x[1] = DQ

\* A rule that wraps whatever it is given.
quote_always(x) == <<DQ>> \o x \o <<DQ>>

\* f'"{x}"' if not x.startswith('"') else x: the rule list_schemas,
\* find_stale_tables and repair_table apply to database, schema and table.
quote(x) == IF ~StartsWithQuote(x) THEN <<DQ>> \o x \o <<DQ>> ELSE x

\* No identifier is being quoted (in the specifications of the scripts).
QuoteOff == ident = <<>> /\ quoted = <<>> /\ applied = 0

\* The rule is applied to what the last application gave.
ApplyQuote ==
  /\ applied < 2
  /\ quoted' = quote(quoted)
  /\ applied' = applied + 1
  /\ UNCHANGED ident
  /\ UNCHANGED <<syncVars, appVars>>

InitQuote ==
  /\ ident \in Identifiers
  /\ quoted = ident /\ applied = 0
  /\ SyncOff /\ AppOff

NextQuote == ApplyQuote

SpecQuote == InitQuote /\ [][NextQuote]_vars

\* C12: quoting is idempotent: for every identifier x, quote(quote(x)) =
\* quote(x); an identifier that already starts with a double quote is
\* returned as it is, and the result of quoting is never wrapped again.
C12_QuoteIdempotent ==
  /\ applied >= 1 => quoted = quote(ident)
  /\ (applied >= 1 /\ StartsWithQuote(ident)) => quoted = ident
  /\ applied >= 1 => quote(quoted) = quoted

\* C12's case: an identifier without a leading double quote has been quoted
\* twice.
C12_Witness ==
  /\ applied = 2
  /\ Len(ident) >= 1 /\ ~StartsWithQuote(ident)
  /\ quoted = <<DQ>> \o ident \o <<DQ>>

\* The first script run of a session, over any warehouse.
InitApp ==
  /\ whSchemas \in SchemaLists
  /\ whTables \in Warehouses
  /\ database_name = DefaultDatabase /\ selected_schema = NoSchema
  /\ days_threshold = DefaultThreshold /\ tables_to_repair = <<>>
  /\ stale_tables = <<>> /\ repair_results = <<>>
  /\ apc = "connect" /\ clicked = "none" /\ conn = FALSE /\ schemas = <<>>
  /\ idx = 0 /\ results = <<>> /\ shown = {} /\ queries = <<>> /\ lastCall = NoCall
  /\ SyncOff
  /\ QuoteOff

NextApp ==
  \/ UserSetDatabase
  \/ UserSelectSchema
  \/ UserSetThreshold
  \/ UserSelectTables
  \/ UserClickFind
  \/ UserClickRepair
  \/ AppConnect
  \/ AppSchemas
  \/ AppFind
  \/ AppDisplay
  \/ AppRepairStep
  \/ AppRepairEnd
  \/ AppReturn

SpecApp == InitApp /\ [][NextApp]_vars

\* ----------------------------------------------------- app: the claims
\* The statements of this script run that repair_table sent for the table,
\* in the order sent.
RepairStatements(table) ==
  SelectSeq(queries, LAMBDA q : q.kind \in {"REFRESH", "SET AUTO_REFRESH"} /\ q.table = table)

\* The outcome agrees with the statements sent for its table: REFRESH first
\* and SET AUTO_REFRESH second, success exactly when both were sent and
\* executed, and a failure carrying the error of the statement that failed.
OutcomeOfStatements(outcome) ==
  LET sts == RepairStatements(outcome.table_name) IN
  /\ Len(sts) \in {1, 2}
  /\ sts[1].kind = "REFRESH"
  /\ Len(sts) = 2 => sts[2].kind = "SET AUTO_REFRESH"
  /\ \A j \in 1..Len(sts) :
       sts[j].database = database_name /\ sts[j].schema = selected_schema
  /\ outcome.success <=> (Len(sts) = 2 /\ sts[1].ok /\ sts[2].ok)
  /\ ~sts[1].ok => (Len(sts) = 1 /\ outcome.message = ErrorText("REFRESH"))
  /\ (Len(sts) = 2 /\ ~sts[2].ok) => outcome.message = ErrorText("SET AUTO_REFRESH")

\* C4: every call of repair_table sends REFRESH first and SET AUTO_REFRESH
\* = TRUE second; its outcome is success only when both executed without
\* error; when REFRESH raises, the outcome is failure with the error text and
\* SET AUTO_REFRESH is never sent for that call.
C4_RepairTableOutcome ==
  \A i \in 1..Len(results) : OutcomeOfStatements(results[i])

\* C4's case: the first repair_table call of a batch has returned failure
\* because its REFRESH raised.
C4_Witness ==
  /\ apc = "repair" /\ Len(results) = 1
  /\ ~results[1].success /\ results[1].message = ErrorText("REFRESH")
  /\ Len(RepairStatements(results[1].table_name)) = 1

\* The script run has started the batch repair.
BatchStarted == \E i \in 1..Len(queries) : queries[i].kind = "REFRESH"

\* C5: a batch repair processes the selected tables one at a time in
\* selection order: during the batch the outcomes so far are those of the
\* first tables of the selection, in order; when the script run that started
\* a batch has ended, the outcome list holds exactly one outcome per selected
\* table in selection order, every selected table was attempted, each outcome
\* depends on the statements of its own table only, and success_count +
\* failure_count is the number of selected tables.
C5_BatchRepairOnePerTable ==
  /\ apc = "repair" =>
       /\ Len(results) = idx - 1
       /\ Len(results) <= Len(tables_to_repair)
       /\ \A i \in 1..Len(results) : results[i].table_name = tables_to_repair[i]
  /\ (apc = "returned" /\ BatchStarted) =>
       /\ Len(repair_results) = Len(tables_to_repair)
       /\ \A i \in 1..Len(tables_to_repair) :
            /\ repair_results[i].table_name = tables_to_repair[i]
            /\ RepairStatements(tables_to_repair[i]) # <<>>
            /\ repair_results[i].success <=>
                 \A q \in Range(RepairStatements(tables_to_repair[i])) : q.ok
       /\ success_count(repair_results) + failure_count(repair_results)
            = Len(tables_to_repair)

\* C5's case: a batch over two tables has ended, the first table failed
\* and the second was repaired.
C5_Witness ==
  /\ apc = "returned" /\ BatchStarted
  /\ Len(tables_to_repair) = 2 /\ Len(repair_results) = 2
  /\ ~repair_results[1].success /\ repair_results[2].success

\* C6: find_stale_tables and list_schemas never raise to their caller: when
\* the execution of the query fails they return the empty list and report an
\* error, and the caller holds the list they returned.
C6_DetectorNeverRaises ==
  lastCall.fn \in {"find_stale_tables", "list_schemas"} =>
    /\ ~lastCall.raised
    /\ lastCall.queryRaised => (lastCall.value = <<>> /\ lastCall.errors >= 1)
    /\ lastCall.fn = "find_stale_tables" => stale_tables = lastCall.value
    /\ lastCall.fn = "list_schemas" => schemas = lastCall.value

\* C6's case: find_stale_tables' query failed over a warehouse that holds a
\* stale table, and the caller received the empty list.
C6_Witness ==
  /\ lastCall.fn = "find_stale_tables" /\ lastCall.queryRaised
  /\ \E n \in DOMAIN whTables : StaleWhere(whTables[n], days_threshold)
  /\ stale_tables = <<>>

\* C7: every record find_stale_tables returns has row_count > 0 and
\* last_altered strictly older than now - threshold_days, whatever rows the
\* query executor handed back, rows of fewer than three columns included.
C7_StaleRecordsOnly ==
  lastCall.fn = "find_stale_tables" =>
    \A i \in 1..Len(lastCall.value) :
      /\ lastCall.value[i].row_count > 0
      /\ lastCall.value[i].last_altered < Now - days_threshold

\* ------------------------------------------------- sync: specifications
\* The state of a fresh process before main, over the given sources.
InitProcess ==
  /\ catalog = NoCatalog /\ catalog_name = NoCatalog /\ warehouse_name = NoCatalog
  /\ namespaces = <<>> /\ pos = 0 /\ tables = <<>> /\ tpos = 0
  /\ pc = "start" /\ ret = "-" /\ cand = 1 /\ run = 1 /\ log = <<>>
  /\ targetSchemas = {} /\ targetTables = <<>>

InitSync ==
  /\ historySync \in BOOLEAN
  /\ \E l1 \in NsLists, l2 \in FallbackNsLists :
       srcNamespaces = ("atlan-wh" :> l1) @@ ("context_store" :> l2)
  /\ srcTables \in TableLists
  /\ InitProcess
  /\ AppOff
  /\ QuoteOff

RunStep ==
  \/ StartListNamespaces
  \/ DetectProbe
  \/ LoadCatalog
  \/ ListNamespaces
  \/ SkipHistory
  \/ CreateSchema
  \/ ListTables
  \/ ProcessTable
  \/ EndTables
  \/ Finish

NextSync == RunStep

SpecSync == InitSync /\ [][NextSync]_vars

\* The namespace lists of "context_store" in the repeated runs: none, or one
\* namespace the other candidate may hold as well.
ResyncFallbackNsLists == {<<>>, <<<<"ns1", "a">>>>}

InitResync ==
  /\ historySync \in BOOLEAN
  /\ \E l1 \in NsLists, l2 \in ResyncFallbackNsLists :
       srcNamespaces = ("atlan-wh" :> l1) @@ ("context_store" :> l2)
  /\ srcTables \in TableLists
  /\ InitProcess
  /\ AppOff
  /\ QuoteOff

\* The script run up to MaxRuns times against the same source and target.
NextResync == RunStep \/ Restart

SpecResync == InitResync /\ [][NextResync]_vars

\* ---------------------------------------------------- sync: the claims
\* The events of the log with the given operation, in order.
EventsOf(op) == SelectSeq(log, LAMBDA e : e.op = op)

\* Whether the log holds an event of the operation for namespace position p
\* (and table position t).
Issued(op, p, t) ==
  \E i \in 1..Len(log) : log[i].op = op /\ log[i].pos = p /\ log[i].tpos = t

Succeeded(op, p, t) ==
  \E i \in 1..Len(log) :
    log[i].op = op /\ log[i].pos = p /\ log[i].tpos = t /\ log[i].ok

Failed(op, p, t) ==
  \E i \in 1..Len(log) :
    log[i].op = op /\ log[i].pos = p /\ log[i].tpos = t /\ ~log[i].ok

\* main is over: it returned or an exception escaped it.
RunOver == pc \in {"done", "raised"}

\* s is a prefix of t.
IsPrefix(s, t) == Len(s) <= Len(t) /\ \A i \in 1..Len(s) : s[i] = t[i]

\* C1: if CREATE SCHEMA fails for the namespace at position N, every
\* namespace at a later position that the history rule does not skip has its
\* CREATE SCHEMA issued in the same run and, when that succeeds, its tables
\* listed.
C1_SchemaFailureDoesNotBlockLater ==
  RunOver =>
    \A n, k \in 1..Len(namespaces) :
      (n < k /\ Failed("CREATE SCHEMA", n, 0) /\ ~SkipNamespace(namespaces[k]))
        => /\ Issued("CREATE SCHEMA", k, 0)
           /\ Succeeded("CREATE SCHEMA", k, 0) => Issued("list_tables", k, 0)

\* The operations sync issues for a namespace or one of its tables.
NamespaceOps == {"CREATE SCHEMA", "list_tables", "load_table", "CREATE TABLE"}

\* The namespace list without the history namespace.
WithoutHistory(nss) == SelectSeq(nss, LAMBDA n : n # HistoryNamespace)

\* The namespaces CREATE SCHEMA was issued for, in the order of issue.
SchemaNamespaces ==
  LET evs == EventsOf("CREATE SCHEMA") IN [i \in 1..Len(evs) |-> evs[i].ns]

\* C2: with HISTORY_NAMESPACE_SYNC false and "atlan-history" in the
\* namespace list, no CREATE SCHEMA, list_tables, load_table or CREATE TABLE
\* is ever issued for it, and the other namespaces are processed as if it
\* were absent: CREATE SCHEMA is issued for the namespaces of the list without
\* it, in that order, for all of them once main returns, and each of them
\* whose schema was created has its tables listed.
C2_HistorySkipped ==
  (~historySync /\ HistoryNamespace \in Range(namespaces)) =>
    /\ \A i \in 1..Len(log) : log[i].op \in NamespaceOps => log[i].ns # HistoryNamespace
    /\ IsPrefix(SchemaNamespaces, WithoutHistory(namespaces))
    /\ pc = "done" =>
         /\ SchemaNamespaces = WithoutHistory(namespaces)
         /\ \A p \in 1..Len(namespaces) :
              Succeeded("CREATE SCHEMA", p, 0) => Issued("list_tables", p, 0)

\* C2's case: a run that returned, skipped the history namespace and created
\* a table of a namespace listed after it.
C2_Witness ==
  /\ pc = "done" /\ ~historySync
  /\ \E p, q \in 1..Len(namespaces) :
       /\ p < q
       /\ namespaces[p] = HistoryNamespace
       /\ Succeeded("CREATE TABLE", q, 1)

\* The probe of detect_catalog on candidate c, if any: whether the candidate
\* was accessible and held namespaces.
Probed(c) == \E i \in 1..Len(log) : log[i].op = "probe" /\ log[i].ns = c

ProbeQualified(c) ==
  \E i \in 1..Len(log) :
    log[i].op = "probe" /\ log[i].ns = c /\ log[i].ok /\ srcNamespaces[c] # <<>>

\* detect_catalog is over and returned c / raised.
DetectReturned(c) == catalog_name = c

DetectRaised == pc = "raised" /\ catalog_name = NoCatalog

\* C3: detect_catalog probes "atlan-wh" first and "context_store" second; it
\* returns "atlan-wh" exactly when that candidate is accessible and non-empty,
\* and then never probes "context_store"; it returns "context_store" only
\* when "atlan-wh" did not qualify and "context_store" does; it raises
\* exactly when neither qualifies.
C3_DetectPrefersAtlanWh ==
  LET probes == EventsOf("probe") IN
  /\ Len(probes) <= 2
  /\ Len(probes) >= 1 => probes[1].ns = "atlan-wh"
  /\ Len(probes) = 2 => probes[2].ns = "context_store"
  /\ ProbeQualified("atlan-wh") <=> DetectReturned("atlan-wh")
  /\ DetectReturned("atlan-wh") => ~Probed("context_store")
  /\ DetectReturned("context_store") <=>
       (Probed("atlan-wh") /\ ~ProbeQualified("atlan-wh") /\ ProbeQualified("context_store"))
  /\ DetectRaised <=>
       /\ Probed("atlan-wh") /\ ~ProbeQualified("atlan-wh")
       /\ Probed("context_store") /\ ~ProbeQualified("context_store")

\* C3's case: "atlan-wh" was accessible but held no namespace, and
\* detect_catalog returned "context_store".
C3_Witness ==
  /\ DetectReturned("context_store")
  /\ \E i \in 1..Len(log) : log[i].op = "probe" /\ log[i].ns = "atlan-wh" /\ log[i].ok

\* The per-table operations of the try block.
TableOps == {"load_table", "get_metadata_path", "CREATE TABLE"}

TableFailed(p, t) == \E op \in TableOps : Failed(op, p, t)

\* C8: no CREATE TABLE is issued for a table without metadata_location, and
\* a failure of load_table, of get_metadata_path or of CREATE TABLE for the
\* table at position t of the namespace at position p is confined to that
\* table: once main is over, every later table of the namespace was loaded
\* and every later namespace that is not skipped had its CREATE SCHEMA issued.
C8_TableFailureConfined ==
  /\ \A i \in 1..Len(log) :
       log[i].op = "CREATE TABLE" =>
         srcTables[log[i].tpos].metadata_location # NoLocation
  /\ RunOver =>
       \A p \in 1..Len(namespaces), t \in 1..Len(srcTables) :
         TableFailed(p, t) =>
           /\ \A u \in 1..Len(srcTables) : u > t => Issued("load_table", p, u)
           /\ \A k \in 1..Len(namespaces) :
                (k > p /\ ~SkipNamespace(namespaces[k])) => Issued("CREATE SCHEMA", k, 0)

\* C9: once detect_catalog and list_namespaces have succeeded (the namespace
\* loop has begun), no exception escapes main, whatever fails for a
\* namespace or a table and whatever the table identifiers are.
C9_NoExceptionEscapesMain == pos >= 1 => pc # "raised"

\* ---------------------------------------------------- resync: the claim
\* The operations of a run that can fail for one namespace or one table.
ItemOps == {"CREATE SCHEMA", "list_tables"} \cup TableOps

\* The run executed with no failure.
NoFailures == \A i \in 1..Len(log) : log[i].op \in ItemOps => log[i].ok

\* The target holds a schema for every non-skipped namespace of source
\* catalog c and a table for every listed table with a metadata location.
Covered(c) ==
  LET nss == NormaliseAll(srcNamespaces[c]) IN
  \A i \in 1..Len(nss) :
    ~SkipNamespace(nss[i]) =>
      /\ nss[i] \in targetSchemas
      /\ \A j \in 1..Len(srcTables) :
           srcTables[j].metadata_location # NoLocation =>
             /\ srcTables[j].identifier # <<>>
             /\ <<nss[i], Last(srcTables[j].identifier)>> \in DOMAIN targetTables

\* Every schema and table of the target is still there after the step, the
\* table with the metadata path it was created with.
TargetKept ==
  /\ targetSchemas \subseteq targetSchemas'
  /\ \A k \in DOMAIN targetTables :
       k \in DOMAIN targetTables' /\ targetTables'[k] = targetTables[k]

\* C10: across runs against the same source, (1) no step of any run removes
\* or alters a schema or table of the target, whatever failed before;
\* (2) a run that returns with no failure leaves the target covering the
\* source catalog it read: a schema for every non-skipped namespace and a
\* table for every listed table with a metadata location; (3) no step of a
\* run that reads a source catalog the target already covers changes the
\* target.
C10_IdempotentRestartSafe ==
  /\ [][TargetKept]_vars
  /\ []((pc = "done" /\ NoFailures) => Covered(catalog))
  /\ [][(catalog # NoCatalog /\ Covered(catalog)) => targetUnchanged]_vars

\* C10's case: a second run in which every CREATE SCHEMA failed has
\* returned, and the target holds the tables an earlier run created and
\* covers the source catalog.
C10_Witness ==
  /\ run = 2 /\ pc = "done"
  /\ EventsOf("CREATE SCHEMA") # <<>>
  /\ \A i \in 1..Len(log) : log[i].op = "CREATE SCHEMA" => ~log[i].ok
  /\ DOMAIN targetTables # {}
  /\ Covered(catalog)

\* ------------------------------------------- both scripts: the sessions
\* One run of the sync script and one session of the app, each on its own
\* system and in any interleaving, over one source catalog and one warehouse.
InitSessions ==
  /\ historySync = FALSE
  /\ srcNamespaces = ("atlan-wh" :> <<<<"atlan-history">>, <<"ns1">>>>)
                       @@ ("context_store" :> <<<<"ns1", "a">>>>)
  /\ srcTables = <<[identifier |-> <<"ns", "t1">>, metadata_location |-> "s3://m/t1"]>>
  /\ InitProcess
  /\ whSchemas = <<"S1", "S2">>
  /\ whTables = ("T1" :> [last_altered |-> 0, row_count |-> 10])
  /\ database_name = DefaultDatabase /\ selected_schema = NoSchema
  /\ days_threshold = DefaultThreshold /\ tables_to_repair = <<>>
  /\ stale_tables = <<>> /\ repair_results = <<>>
  /\ apc = "connect" /\ clicked = "none" /\ conn = FALSE /\ schemas = <<>>
  /\ idx = 0 /\ results = <<>> /\ shown = {} /\ queries = <<>> /\ lastCall = NoCall
  /\ QuoteOff

NextSessions == RunStep \/ NextApp

SpecSessions == InitSessions /\ [][NextSessions]_vars

\* The statements that create something in the target.
CreateOps == {"CREATE SCHEMA", "CREATE TABLE"}

\* The sync run ended with an exception before the namespace loop: in
\* detect_catalog, in load_catalog or in list_namespaces.
SyncAborted == pc = "raised" /\ pos = 0

\* main of the app returned because get_snowflake_connection gave None.
AppNotConnected == apc = "returned" /\ ~conn

\* C11: errors of session establishment are fatal and come before any work.
\* In the sync script no CREATE SCHEMA or CREATE TABLE is issued before
\* list_namespaces has returned, so a run that ends in detect_catalog, in
\* load_catalog or in list_namespaces has issued none and left the target
\* empty; in the app no query is sent before the connection is obtained, and
\* a script run that obtained none returns having sent no query and called
\* neither list_schemas nor find_stale_tables.
C11_SessionErrorsBeforeWork ==
  /\ pos = 0 => \A i \in 1..Len(log) : log[i].op \notin CreateOps
  /\ SyncAborted => (targetSchemas = {} /\ targetTables = <<>>)
  /\ apc = "connect" => queries = <<>>
  /\ AppNotConnected => (queries = <<>> /\ lastCall = NoCall)

\* C11's case: detect_catalog raised after probing both candidates, and a
\* script run of the app that found stale tables before has returned
\* without a connection.
C11_Witness ==
  /\ SyncAborted /\ DetectRaised
  /\ AppNotConnected /\ stale_tables # <<>>

\* ------------------------------------------- sync: order within a run
\* An event of the operation, successful, for the namespace entry of event i
\* and earlier in the log than event i.
SucceededBefore(op, i) ==
  \E k \in 1..(i - 1) :
    LET e == log[i - k] IN e.op = op /\ e.pos = log[i].pos /\ e.ok

\* Event i is the first of its operation for its namespace entry.
FirstIssue(i) ==
  \A j \in 1..(i - 1) : ~(log[j].op = log[i].op /\ log[j].pos = log[i].pos)

\* C13: within one run, for every namespace entry, list_tables and every
\* load_table and CREATE TABLE come after a CREATE SCHEMA for that entry, one
\* that succeeded; every load_table and CREATE TABLE comes after a successful
\* list_tables for it; and CREATE SCHEMA and list_tables are each issued at
\* most once per entry, so a failed one is never retried.
C13_SchemaBeforeTables ==
  \A i \in 1..Len(log) :
    /\ log[i].op \in {"list_tables"} \cup TableOps =>
         SucceededBefore("CREATE SCHEMA", i)
    /\ log[i].op \in TableOps => SucceededBefore("list_tables", i)
    /\ log[i].op \in {"CREATE SCHEMA", "list_tables"} => FirstIssue(i)

\* C13's case: a run has returned in which the CREATE SCHEMA of one
\* namespace entry failed and nothing else was issued for it, the listing of
\* another failed after its schema was created, and a third had a table
\* created.
C13_Witness ==
  /\ pc = "done"
  /\ \E p, q, r \in 1..Len(namespaces) :
       /\ Failed("CREATE SCHEMA", p, 0) /\ ~Issued("list_tables", p, 0)
       /\ Succeeded("CREATE SCHEMA", q, 0) /\ Failed("list_tables", q, 0)
       /\ ~Issued("load_table", q, 1)
       /\ Succeeded("CREATE TABLE", r, 1)

\* ------------------------------------------- sync: the reader on its own
\* A caller of one PolarisSQLReader that calls list_namespaces() or
\* list_tables(namespace) again and again, catching what they raise.
ReaderCall ==
  /\ pc \in {"raised", "namespace", "table"}
  /\ Len(log) < MaxReaderEvents
  /\ \/ pc' = "start" /\ UNCHANGED <<namespaces, pos>>
     \/ pc' = "list_tables" /\ namespaces' = <<"ns1">> /\ pos' = 1
  /\ UNCHANGED <<tables, tpos, ret, cand, run, log>>
  /\ srcUnchanged /\ targetUnchanged /\ readerUnchanged
  /\ UNCHANGED <<appVars, quoteVars>>

InitReader ==
  /\ historySync = FALSE
  /\ \E l1 \in {<<>>, <<<<"ns1">>>>}, l2 \in ResyncFallbackNsLists :
       srcNamespaces = ("atlan-wh" :> l1) @@ ("context_store" :> l2)
  /\ srcTables \in TableLists
  /\ InitProcess
  /\ AppOff
  /\ QuoteOff

NextReader ==
  \/ ReaderCall
  \/ StartListNamespaces
  \/ DetectProbe
  \/ LoadCatalog
  \/ ListNamespaces
  \/ ListTables

SpecReader == InitReader /\ [][NextReader]_vars

\* The operations of detect_catalog and of connect_to_catalog's load_catalog.
ConnectOps == {"probe", "load_catalog"}

\* The catalog handle is set.
Connected == catalog # NoCatalog

\* The step logs no probe and no load_catalog.
NoConnectIssued ==
  \A i \in (Len(log) + 1)..Len(log') : log'[i].op \notin ConnectOps

\* C14: the connection of a PolarisSQLReader is established on the first
\* call and reused: the handle is set only by a load_catalog that succeeded;
\* once it is set, no step of a later list_namespaces or list_tables probes
\* a candidate or loads a catalog, and catalog, catalog_name and
\* warehouse_name never change; while it is unset (no call yet, or the
\* connection failed) each call begins with detect_catalog.
C14_ConnectionLazyAndReused ==
  /\ [](Connected => /\ Succeeded("load_catalog", 0, 0)
                     /\ catalog = catalog_name /\ warehouse_name = catalog_name)
  /\ [][Connected => (NoConnectIssued /\ readerUnchanged)]_vars
  /\ []((pc = "raised" /\ ~Succeeded("load_catalog", 0, 0)) => ~Connected)
  /\ [][(~Connected /\ pc \in {"start", "list_tables"}) => pc' = "detect"]_vars

\* C14's case: the first connection failed in load_catalog, a later call
\* connected, and after that list_namespaces and list_tables both returned
\* over the stored handle.
C14_Witness ==
  /\ Connected
  /\ \E i, j, k, l \in 1..Len(log) :
       /\ i < j /\ j < k /\ k < l
       /\ log[i].op = "load_catalog" /\ ~log[i].ok
       /\ log[j].op = "load_catalog" /\ log[j].ok
       /\ log[k].op = "list_namespaces" /\ log[k].ok
       /\ log[l].op = "list_tables" /\ log[l].ok

\* ------------------------------------------- app: what a repair targets
\* The ALTER ICEBERG TABLE statements of this script run.
AlterStatements ==
  SelectSeq(queries, LAMBDA q : q.kind \in {"REFRESH", "SET AUTO_REFRESH"})

\* The table names of the stale list held in the session state.
StaleNames == { stale_tables[i].table_name : i \in 1..Len(stale_tables) }

\* C15: every ALTER ICEBERG TABLE statement targets a table name of the
\* stale list held in the session state, which only a find action changes;
\* the tables of a batch are among those names; no such statement is issued
\* and no repair button is offered while the list is empty; and no step of a
\* batch repair changes the list.
C15_RepairTargetsStaleList ==
  /\ [](\A i \in 1..Len(AlterStatements) : AlterStatements[i].table \in StaleNames)
  /\ [](apc = "repair" => Range(tables_to_repair) \subseteq StaleNames)
  /\ [](stale_tables = <<>> => (AlterStatements = <<>> /\ apc # "repair"))
  /\ []((stale_tables = <<>> /\ apc = "idle") => "repair" \notin shown)
  /\ [][stale_tables' # stale_tables => apc = "find"]_vars
  /\ [][apc = "repair" => stale_tables' = stale_tables]_vars

\* C15's case: a batch has ended that repaired a table of the stale list,
\* over a schema holding another table that is not in the list, and the
\* repaired table is still in the list.
C15_Witness ==
  /\ apc = "returned" /\ BatchStarted
  /\ \E i \in 1..Len(repair_results) :
       repair_results[i].success /\ repair_results[i].table_name \in StaleNames
  /\ \E n \in DOMAIN whTables : n \notin StaleNames

====
